---- MODULE Spec2Model ----
(***************************************************************************)
(* Usage metering, charging and balance resets of OpenWebUI-Monitor.       *)
(*                                                                         *)
(* Money is kept the way the store keeps it: a DECIMAL(16,4) value is the  *)
(* pair [w, f] of whole units and ten-thousandths (0 <= f < 10000), so     *)
(* 999999.9999 is [w |-> 999999, f |-> 9999].  Costs computed by the       *)
(* handler (JavaScript numbers) are counted in millionths of a unit        *)
(* ("micro"): a price of p per million tokens is p micro per token.        *)
(***************************************************************************)
EXTENDS Integers, Sequences, FiniteSets, TLC

(***************************************************************************)
(* Bounds of the model.                                                    *)
(***************************************************************************)
NumReqs == 2
MaxMsgs == 2
MaxAdminOps == 1
NumTicks == 2

Reqs == 1..NumReqs
UserIds == {"u1", "u2"}

(***************************************************************************)
(* DECIMAL(16,4) arithmetic.                                               *)
(***************************************************************************)
Scale == 10000
MicroPerTick == 100

Money(w, f) == [w |-> w, f |-> f]
Zero == Money(0, 0)
MaxBalance == Money(999999, 9999)

MLess(a, b) == a.w < b.w \/ (a.w = b.w /\ a.f < b.f)
MLeq(a, b) == a = b \/ MLess(a, b)
Least(a, b) == IF MLess(b, a) THEN b ELSE a

\* a - t, t a (possibly negative) number of ten-thousandths
SubTicks(a, t) == Money(a.w + ((a.f - t) \div Scale), (a.f - t) % Scale)

\* CAST($1 AS DECIMAL(16,4)) of a cost in millionths: rounds half away from zero
CastDec4(c) ==
  IF c >= 0 THEN (c + (MicroPerTick \div 2)) \div MicroPerTick
            ELSE -(((-c) + (MicroPerTick \div 2)) \div MicroPerTick)

\* balance = LEAST(balance - CAST($1 AS DECIMAL(16,4)), 999999.9999)
DebitNoCap(balance, cost) == SubTicks(balance, CastDec4(cost))
Debit(balance, cost) == Least(SubTicks(balance, CastDec4(cost)), MaxBalance)

(***************************************************************************)
(* Environment settings are strings (sequences of characters) that may be  *)
(* unset; parseFloat / parseInt read the longest numeric prefix.           *)
(***************************************************************************)
Unset == [set |-> FALSE, val |-> <<>>]
Str(s) == [set |-> TRUE, val |-> s]

DigitVal ==
  [c \in {"0", "1", "2", "3", "4", "5", "6", "7", "8", "9"} |->
     CASE c = "0" -> 0 [] c = "1" -> 1 [] c = "2" -> 2 [] c = "3" -> 3
       [] c = "4" -> 4 [] c = "5" -> 5 [] c = "6" -> 6 [] c = "7" -> 7
       [] c = "8" -> 8 [] c = "9" -> 9]
IsDigit(c) == c \in DOMAIN DigitVal

RECURSIVE DigitsLen(_)
DigitsLen(s) ==
  IF s = <<>> \/ ~IsDigit(Head(s)) THEN 0 ELSE 1 + DigitsLen(Tail(s))

RECURSIVE DigitsValue(_, _)
DigitsValue(s, n) ==
  IF n = 0 THEN 0 ELSE DigitsValue(s, n - 1) * 10 + DigitVal[s[n]]

NaN == [nan |-> TRUE, val |-> 0]
Num(v) == [nan |-> FALSE, val |-> v]

\* the number a string starts with: optional sign, then digits; NaN without digits
NumericPrefix(s) ==
  LET neg == s # <<>> /\ Head(s) = "-"
      body == IF s # <<>> /\ Head(s) \in {"-", "+"} THEN Tail(s) ELSE s
      n == DigitsLen(body)
  IN IF n = 0 THEN NaN
     ELSE Num(IF neg THEN -DigitsValue(body, n) ELSE DigitsValue(body, n))

ParseFloat(s) == NumericPrefix(s)

\* process.env.X || dflt : an unset or empty setting takes the default
OrDefault(e, dflt) == IF e.set /\ e.val # <<>> THEN e.val ELSE dflt

(***************************************************************************)
(* PricingCatalog.  Stored prices: per-token prices per million tokens     *)
(* and a per-message price in millionths (negative: use per-token prices). *)
(***************************************************************************)
Models == {"m_tok", "m_fix", "m_none"}
ModelPrices ==
  [m \in {"m_tok", "m_fix"} |->
     IF m = "m_tok"
       THEN [input_price |-> 2, output_price |-> 6, per_msg_price |-> -1000000]
       ELSE [input_price |-> 0, output_price |-> 0, per_msg_price |-> 120000000]]

NoPrice == [found |-> FALSE,
            price |-> [input_price |-> 0, output_price |-> 0, per_msg_price |-> 0]]

\* defaults accepted without the test for a negative price
DefaultPriceOrNull_NoSign(envIn, envOut) ==
  LET defaultInputPrice == ParseFloat(OrDefault(envIn, <<"6", "0">>))
      defaultOutputPrice == ParseFloat(OrDefault(envOut, <<"6", "0">>))
  IN IF defaultInputPrice.nan \/ defaultOutputPrice.nan
       THEN NoPrice
       ELSE [found |-> TRUE,
             price |-> [input_price |-> defaultInputPrice.val,
                        output_price |-> defaultOutputPrice.val,
                        per_msg_price |-> -1000000]]

DefaultPriceOrNull(envIn, envOut) ==
  LET defaultInputPrice == ParseFloat(OrDefault(envIn, <<"6", "0">>))
      defaultOutputPrice == ParseFloat(OrDefault(envOut, <<"6", "0">>))
  IN IF defaultInputPrice.nan \/ defaultInputPrice.val < 0
        \/ defaultOutputPrice.nan \/ defaultOutputPrice.val < 0
       THEN NoPrice
       ELSE [found |-> TRUE,
             price |-> [input_price |-> defaultInputPrice.val,
                        output_price |-> defaultOutputPrice.val,
                        per_msg_price |-> -1000000]]

getModelPrice(modelId, envIn, envOut) ==
  IF modelId \in DOMAIN ModelPrices
    THEN [found |-> TRUE, price |-> ModelPrices[modelId]]
    ELSE DefaultPriceOrNull(envIn, envOut)

(***************************************************************************)
(* UsageEstimator.  A message is known by the length of its content and    *)
(* the number of tokens the tokenizer finds in it.                         *)
(***************************************************************************)
CHAR_LIMIT_FOR_ESTIMATION == 50000
CHARS_PER_TOKEN == 4

NoUsage == [present |-> FALSE, prompt_tokens |-> 0, completion_tokens |-> 0]
Usage(p, c) == [present |-> TRUE, prompt_tokens |-> p, completion_tokens |-> c]

Ceil(a, b) == (a + b - 1) \div b

RECURSIVE SumChars(_)
SumChars(msgs) == IF msgs = <<>> THEN 0 ELSE Head(msgs).chars + SumChars(Tail(msgs))

RECURSIVE SumToks(_)
SumToks(msgs) == IF msgs = <<>> THEN 0 ELSE Head(msgs).toks + SumToks(Tail(msgs))

\* lastMessage.usage && usage.prompt_tokens && usage.completion_tokens
UsageTruthy(u) == u.present /\ u.prompt_tokens # 0 /\ u.completion_tokens # 0

NoTokens == [ok |-> FALSE, inputTokens |-> 0, outputTokens |-> 0, tokenSource |-> "NONE"]

\* estimation starting at the limit itself (>= for >)
EstimateTokens_AtLimit(msgs, usage) ==
  IF msgs = <<>> THEN NoTokens
  ELSE IF UsageTruthy(usage)
    THEN [ok |-> TRUE, inputTokens |-> usage.prompt_tokens,
          outputTokens |-> usage.completion_tokens, tokenSource |-> "LLM_USAGE"]
  ELSE LET totalChars == SumChars(msgs)
           outputChars == msgs[Len(msgs)].chars
       IN IF totalChars >= CHAR_LIMIT_FOR_ESTIMATION
            THEN LET totalTokens == Ceil(totalChars, CHARS_PER_TOKEN)
                     outputTokens == Ceil(outputChars, CHARS_PER_TOKEN)
                 IN [ok |-> TRUE, inputTokens |-> totalTokens - outputTokens,
                     outputTokens |-> outputTokens, tokenSource |-> "ESTIMATION"]
            ELSE LET outputTokens == msgs[Len(msgs)].toks
                     totalTokens == SumToks(msgs)
                 IN [ok |-> TRUE, inputTokens |-> totalTokens - outputTokens,
                     outputTokens |-> outputTokens, tokenSource |-> "TOKENIZER"]

EstimateTokens(msgs, usage) ==
  IF msgs = <<>> THEN NoTokens     \* lastMessage is undefined: TypeError
  ELSE IF UsageTruthy(usage)
    THEN [ok |-> TRUE, inputTokens |-> usage.prompt_tokens,
          outputTokens |-> usage.completion_tokens, tokenSource |-> "LLM_USAGE"]
  ELSE LET totalChars == SumChars(msgs)
           outputChars == msgs[Len(msgs)].chars
       IN IF totalChars > CHAR_LIMIT_FOR_ESTIMATION
            THEN LET totalTokens == Ceil(totalChars, CHARS_PER_TOKEN)
                     outputTokens == Ceil(outputChars, CHARS_PER_TOKEN)
                 IN [ok |-> TRUE, inputTokens |-> totalTokens - outputTokens,
                     outputTokens |-> outputTokens, tokenSource |-> "ESTIMATION"]
            ELSE LET outputTokens == msgs[Len(msgs)].toks
                     totalTokens == SumToks(msgs)
                 IN [ok |-> TRUE, inputTokens |-> totalTokens - outputTokens,
                     outputTokens |-> outputTokens, tokenSource |-> "TOKENIZER"]

(***************************************************************************)
(* CostCalculator (in millionths).                                         *)
(***************************************************************************)
\* the fixed price tested before the zero-output rule
TotalCost_FixedFirst(price, inputTokens, outputTokens) ==
  IF price.per_msg_price >= 0 THEN price.per_msg_price
  ELSE IF outputTokens = 0 THEN 0
  ELSE inputTokens * price.input_price + outputTokens * price.output_price

TotalCost(price, inputTokens, outputTokens) ==
  IF outputTokens = 0 THEN 0
  ELSE IF price.per_msg_price >= 0 THEN price.per_msg_price
  ELSE inputTokens * price.input_price + outputTokens * price.output_price

(***************************************************************************)
(* State.                                                                  *)
(*   db   the store as seen through query(): user rows, usage records and  *)
(*        the last_balance_reset setting                                   *)
(*   tx   the transaction state of the session query() runs statements on  *)
(*   req  the outlet POST requests in progress, one record per request     *)
(*   batch  history of the charges that overlap in time (not program       *)
(*        state: read only by the properties)                              *)
(*   adm  the administrative call in progress, and the response of the     *)
(*        last single-user reset                                           *)
(*   clock  the position of new Date() in the calendar                     *)
(*   procEnv  process.env.BALANCE_RESET_DAY, and whether query() reaches   *)
(*        the store                                                        *)
(*   sched  lib/scheduler and lib/runtime: isInitialized,                  *)
(*        schedulerInterval (whether it holds a timer), the number of     *)
(*        live setInterval timers, runtimeInitialized and the              *)
(*        checkAndReset calls in progress                                  *)
(*   calc  one evaluation of the reset-day functions on given inputs       *)
(***************************************************************************)
VARIABLES db, tx, req, batch, adm, clock, procEnv, sched, calc

vars == <<db, tx, req, batch, adm, clock, procEnv, sched, calc>>

NoRow == [exists |-> FALSE, balance |-> Zero, default_balance |-> Zero, deleted |-> FALSE]
Row(b, d) == [exists |-> TRUE, balance |-> b, default_balance |-> d, deleted |-> FALSE]

NoTx == [state |-> "none", snap |-> <<>>]

NoData == [bodyOk |-> FALSE, user |-> "u1", model |-> "m_tok", msgs |-> <<>>,
           usage |-> NoUsage, inlet |-> 0, envIn |-> Unset, envOut |-> Unset,
           insertOk |-> FALSE]

IdleReq == [pc |-> "idle", data |-> NoData, price |-> NoPrice.price,
            tok |-> NoTokens, totalCost |-> 0,
            actualCost |-> 0, newBalance |-> Zero, balBefore |-> Zero,
            error |-> "", pre |-> <<>>]

NoBatch == [base |-> <<>>, members |-> {}, debits |-> [u \in UserIds |-> 0],
            clean |-> FALSE, capped |-> {}, overlap |-> FALSE]

\* the response of a single-user reset: HTTP status, error text, balance reported
NoResp == [status |-> 0, error |-> "", balance |-> <<>>]
Resp(status, error, balance) == [status |-> status, error |-> error, balance |-> balance]

\* now: the new Date() a bulk reset that is not forced hands to shouldAutoResetNow
IdleAdm == [pc |-> "idle", force |-> FALSE, ops |-> 0, count |-> 0, resp |-> NoResp,
            now |-> <<>>]

TickIds == 1..NumTicks

DefaultEnv == [BALANCE_RESET_DAY |-> Unset, dbUp |-> TRUE]

\* by: what called checkAndReset, initScheduler ("init") or the timer ("timer");
\* pre: the user rows before the call's reset (history, read by the properties)
IdleTick == [pc |-> "idle", by |-> "", now |-> <<>>, count |-> 0, pre |-> <<>>]

\* stopped: stopScheduler has cleared a timer; caught: the step of the last
\* checkAndReset that raised an error (history, read by the properties)
IdleSched == [isInitialized |-> FALSE, schedulerInterval |-> FALSE, timers |-> 0,
              runtimeInitialized |-> FALSE, stopped |-> FALSE, caught |-> "",
              ticks |-> [t \in TickIds |-> IdleTick]]

NoCalc == [done |-> FALSE]

InFlight(r) == req[r].pc \notin {"idle", "done", "failed", "closed"}
Active(r) == req[r].pc \notin {"idle", "closed"}

(***************************************************************************)
(* The store: statements of every caller run on one session, so BEGIN,     *)
(* COMMIT and ROLLBACK act on that session's transaction, whoever issued   *)
(* them.  A statement that raises an error inside a transaction leaves the *)
(* transaction aborted: every later statement fails until it is ended.     *)
(***************************************************************************)
StmtFails == tx.state = "aborted"

SqlBegin(t, d) == IF t.state = "none" THEN [state |-> "open", snap |-> <<d>>] ELSE t

SqlCommitDb(t, d) == IF t.state = "aborted" THEN t.snap[1] ELSE d

SqlRollbackDb(t, d) == IF t.state = "none" THEN d ELSE t.snap[1]

\* the transaction state after a statement raised an error
SqlError(t) == IF t.state = "open" THEN [t EXCEPT !.state = "aborted"] ELSE t

(***************************************************************************)
(* outlet POST, one action per awaited statement.  The synchronous code    *)
(* between two awaits runs with the statement that follows it.             *)
(***************************************************************************)
Fail(r, why) == [req EXCEPT ![r].pc = "rollback", ![r].error = why]
Dirty == [batch EXCEPT !.clean = FALSE]

\* lines 63-80: read the request, then BEGIN; requests are numbered in the
\* order they arrive
Receive(r, data) ==
  /\ req[r].pc = "idle"
  /\ \A q \in Reqs : q < r => req[q].pc # "idle"
  /\ LET alone == \A q \in Reqs \ {r} : ~Active(q)
         b == IF alone
                THEN [base |-> <<db.users>>, members |-> {r},
                      debits |-> [u \in UserIds |-> 0],
                      clean |-> TRUE, capped |-> {}, overlap |-> FALSE]
                ELSE [batch EXCEPT !.members = @ \cup {r},
                                   !.overlap = @ \/ \E q \in Reqs \ {r} : InFlight(q)]
         rec == [IdleReq EXCEPT !.data = data, !.pre = <<db>>]
     IN IF ~data.bodyOk
          THEN /\ req' = [req EXCEPT ![r] = [rec EXCEPT !.pc = "rollback", !.error = "BODY"]]
               /\ batch' = [b EXCEPT !.clean = FALSE]
               /\ UNCHANGED <<db, tx>>
        ELSE IF StmtFails
          THEN /\ req' = [req EXCEPT ![r] = [rec EXCEPT !.pc = "rollback", !.error = "SQL"]]
               /\ batch' = [b EXCEPT !.clean = FALSE]
               /\ UNCHANGED <<db, tx>>
        ELSE /\ req' = [req EXCEPT ![r] = [rec EXCEPT !.pc = "price"]]
             /\ tx' = SqlBegin(tx, db)
             /\ batch' = b
             /\ UNCHANGED db
  /\ UNCHANGED <<adm, clock, procEnv, sched, calc>>

\* lines 82-154: price lookup, token counts, cost
Price(r) ==
  /\ req[r].pc = "price"
  /\ LET d == req[r].data
         mp == getModelPrice(d.model, d.envIn, d.envOut)
         tok == EstimateTokens(d.msgs, d.usage)
         totalCost == TotalCost(mp.price, tok.inputTokens, tok.outputTokens)
     IN IF StmtFails THEN req' = Fail(r, "SQL") /\ batch' = Dirty
        ELSE IF ~mp.found THEN req' = Fail(r, "PRICE_NOT_FOUND") /\ batch' = Dirty
        ELSE IF ~tok.ok THEN req' = Fail(r, "TOKENIZATION_FAILURE") /\ batch' = Dirty
        ELSE /\ req' = [req EXCEPT ![r].pc = "update", ![r].tok = tok,
                                   ![r].price = mp.price,
                                   ![r].totalCost = totalCost,
                                   ![r].actualCost = totalCost - d.inlet]
             /\ batch' = batch
  /\ UNCHANGED <<db, tx, adm, clock, procEnv, sched, calc>>

\* the UPDATE ... WHERE id = $2 of lines 156-165: the rows it matches
UpdateMatches(u) == db.users[u].exists

\* a debit computed from the balance read when the request arrived
NewBalance_Stale(r, u) == Debit(req[r].pre[1].users[u].balance, req[r].actualCost)

\* SET balance = LEAST(balance - CAST($1 AS DECIMAL(16,4)), 999999.9999) RETURNING balance:
\* the balance is read and written by the one statement
NewBalance(r, u) == Debit(db.users[u].balance, req[r].actualCost)

\* lines 156-175: debit the balance, check the result
Update(r) ==
  /\ req[r].pc = "update"
  /\ LET u == req[r].data.user
         old == db.users[u].balance
         new == NewBalance(r, u)
     IN IF StmtFails THEN req' = Fail(r, "SQL") /\ batch' = Dirty /\ UNCHANGED db
        ELSE IF ~UpdateMatches(u)
          THEN req' = Fail(r, "USER_NOT_FOUND") /\ batch' = Dirty /\ UNCHANGED db
        ELSE /\ db' = [db EXCEPT !.users[u].balance = new]
             /\ IF MLess(MaxBalance, new)
                  THEN /\ req' = [req EXCEPT ![r].pc = "rollback",
                                             ![r].error = "BALANCE_OVERFLOW",
                                             ![r].newBalance = new, ![r].balBefore = old]
                       /\ batch' = Dirty
                  ELSE /\ req' = [req EXCEPT ![r].pc = "insert", ![r].newBalance = new,
                                             ![r].balBefore = old]
                       /\ batch' = [batch EXCEPT
                            !.debits[u] = @ + CastDec4(req[r].actualCost),
                            !.capped = IF MLess(MaxBalance, DebitNoCap(old, req[r].actualCost))
                                         THEN @ \cup {u} ELSE @]
  /\ UNCHANGED <<tx, adm, clock, procEnv, sched, calc>>

\* lines 177-192: write the usage record
Insert(r) ==
  /\ req[r].pc = "insert"
  /\ IF StmtFails THEN req' = Fail(r, "SQL") /\ batch' = Dirty /\ UNCHANGED <<db, tx>>
     ELSE IF ~req[r].data.insertOk
       THEN /\ req' = Fail(r, "INSERT")
            /\ tx' = SqlError(tx)
            /\ batch' = Dirty
            /\ UNCHANGED db
     ELSE /\ db' = [db EXCEPT !.records = Append(@,
                      [cid |-> r, user_id |-> req[r].data.user,
                       model_name |-> req[r].data.model,
                       input_tokens |-> req[r].tok.inputTokens,
                       output_tokens |-> req[r].tok.outputTokens,
                       cost |-> req[r].totalCost,
                       balance_after |-> req[r].newBalance])]
          /\ req' = [req EXCEPT ![r].pc = "commit"]
          /\ UNCHANGED <<tx, batch>>
  /\ UNCHANGED <<adm, clock, procEnv, sched, calc>>

\* line 194: COMMIT, then the success response is built
Commit(r) ==
  /\ req[r].pc = "commit"
  /\ db' = SqlCommitDb(tx, db)
  /\ tx' = NoTx
  /\ req' = [req EXCEPT ![r].pc = "done"]
  /\ batch' = IF tx.state = "aborted" THEN Dirty ELSE batch
  /\ UNCHANGED <<adm, clock, procEnv, sched, calc>>

\* a catch block that reports the failure without issuing ROLLBACK
Rollback_NoStatement(r) ==
  /\ req[r].pc = "rollback"
  /\ req' = [req EXCEPT ![r].pc = "failed"]
  /\ UNCHANGED <<db, tx, batch, adm, clock, procEnv, sched, calc>>

\* line 216: ROLLBACK in the catch block
Rollback(r) ==
  /\ req[r].pc = "rollback"
  /\ db' = SqlRollbackDb(tx, db)
  /\ tx' = NoTx
  /\ req' = [req EXCEPT ![r].pc = "failed"]
  /\ UNCHANGED <<batch, adm, clock, procEnv, sched, calc>>

\* lines 207-214, 218-226: the response is returned
Respond(r) ==
  /\ req[r].pc \in {"done", "failed"}
  /\ req' = [req EXCEPT ![r] = [IdleReq EXCEPT !.pc = "closed"]]
  /\ UNCHANGED <<db, tx, batch, adm, clock, procEnv, sched, calc>>

ChargeStep(r) ==
  \/ Price(r) \/ Update(r) \/ Insert(r) \/ Commit(r) \/ Rollback(r) \/ Respond(r)

(***************************************************************************)
(* The clock: new Date() reads the current day of a short calendar.        *)
(***************************************************************************)
Date(y, m, d) == [year |-> y, month |-> m, day |-> d]
Calendar == <<Date(2024, 1, 31), Date(2024, 2, 1), Date(2024, 2, 29)>>
Today == Calendar[clock]

IsLeap(y) == (y % 4 = 0 /\ y % 100 # 0) \/ y % 400 = 0

\* new Date(year, month + 1, 0).getDate()
LastDayOfMonth(y, m) ==
  IF m = 2 THEN (IF IsLeap(y) THEN 29 ELSE 28)
  ELSE IF m \in {4, 6, 9, 11} THEN 30 ELSE 31

Min(a, b) == IF a < b THEN a ELSE b
Max(a, b) == IF a > b THEN a ELSE b

ParseInt(s) == NumericPrefix(s)

\* parseInt(process.env.BALANCE_RESET_DAY || "1", 10)
ResetDaySetting(env) == ParseInt(OrDefault(env, <<"1">>))

\* Math.min(Math.max(day, 1), 31); NaN stays NaN
getConfiguredResetDay(env) ==
  LET day == ResetDaySetting(env)
  IN IF day.nan THEN NaN ELSE Num(Min(Max(day.val, 1), 31))

isAutoResetEnabled_NotNegative(env) ==
  LET day == ResetDaySetting(env) IN ~day.nan /\ day.val >= 0

isAutoResetEnabled(env) ==
  LET day == ResetDaySetting(env) IN ~day.nan /\ day.val > 0

\* Math.min(configured, lastDayOfMonth); NaN stays NaN
getEffectiveResetDay(env, date) ==
  LET configured == getConfiguredResetDay(env)
  IN IF configured.nan THEN NaN
     ELSE Num(Min(configured.val, LastDayOfMonth(date.year, date.month)))

\* the checks of shouldAutoResetNow made before the store is read
DueBeforeRead(env, date) ==
  /\ isAutoResetEnabled(env)
  /\ ~(date.day < getEffectiveResetDay(env, date).val)

\* the check of shouldAutoResetNow on the stored last reset
NotResetThisMonth_MonthOnly(lastReset, date) ==
  \/ lastReset = <<>>
  \/ ~(lastReset[1].month = date.month)

NotResetThisMonth(lastReset, date) ==
  \/ lastReset = <<>>
  \/ ~(lastReset[1].month = date.month /\ lastReset[1].year = date.year)

shouldAutoResetNow(env, date, lastReset) ==
  DueBeforeRead(env, date) /\ NotResetThisMonth(lastReset, date)

Tick ==
  /\ clock < Len(Calendar)
  /\ clock' = clock + 1
  /\ UNCHANGED <<db, tx, req, batch, adm, procEnv, sched, calc>>

(***************************************************************************)
(* lib/db/users.ts: one statement each.                                    *)
(***************************************************************************)
\* a decimal literal handed to the store: digits only here, else the store raises
SqlDecimal(s) ==
  IF s # <<>> /\ DigitsLen(s) = Len(s)
    THEN [ok |-> TRUE, val |-> Money(DigitsValue(s, Len(s)), 0)]
    ELSE [ok |-> FALSE, val |-> Zero]

\* INSERT ... VALUES ($1, ..., $5, $5) ON CONFLICT (id) DO UPDATE SET email, name
InsertUser(users, u, initBalance) ==
  IF users[u].exists THEN users
  ELSE [users EXCEPT ![u] = Row(initBalance, initBalance)]

\* cost > 999999.9999 throws; else balance = LEAST(CAST($2 AS DECIMAL(16,4)), 999999.9999)
SetBalanceRejected(v) == MLess(MaxBalance, v)

ResetAllRows_Deleted(users) ==
  [u \in UserIds |->
     IF users[u].exists
       THEN [users[u] EXCEPT !.balance = users[u].default_balance]
       ELSE users[u]]

\* UPDATE users SET balance = default_balance WHERE (deleted = FALSE OR deleted IS NULL)
ResetAllRows(users) ==
  [u \in UserIds |->
     IF users[u].exists /\ ~users[u].deleted
       THEN [users[u] EXCEPT !.balance = users[u].default_balance]
       ELSE users[u]]

\* RETURNING id: the rows resetAllBalancesToDefault counts
RowsTouched(users) == {u \in UserIds : users[u].exists /\ ~users[u].deleted}

\* ResetOneRow without its WHERE id = $1
ResetOneRow_All(users, u) ==
  [w \in UserIds |->
     IF users[w].exists THEN [users[w] EXCEPT !.balance = users[w].default_balance]
     ELSE users[w]]

\* UPDATE users SET balance = default_balance WHERE id = $1
ResetOneRow(users, u) == [users EXCEPT ![u].balance = users[u].default_balance]

AdminBudget == adm.ops < MaxAdminOps
Spend == [adm EXCEPT !.ops = @ + 1]

\* a single statement run by an administrative call: it fails in an aborted
\* transaction, and an error it raises aborts an open transaction
AdminStmt(ok, users2) ==
  /\ AdminBudget
  /\ adm' = Spend
  /\ batch' = Dirty
  /\ IF StmtFails THEN UNCHANGED <<db, tx>>
     ELSE IF ~ok THEN tx' = SqlError(tx) /\ UNCHANGED db
     ELSE db' = [db EXCEPT !.users = users2] /\ UNCHANGED tx
  /\ UNCHANGED <<req, clock, procEnv, sched, calc>>

\* getOrCreateUser, INIT_BALANCE read from the environment
getOrCreateUser(u, envInit) ==
  LET initBalance == SqlDecimal(OrDefault(envInit, <<"0">>))
  IN AdminStmt(initBalance.ok, InsertUser(db.users, u, initBalance.val))

deleteUser(u) ==
  AdminStmt(TRUE, IF db.users[u].exists
                    THEN [db.users EXCEPT ![u].deleted = TRUE] ELSE db.users)

updateUserBalance(u, v) ==
  /\ ~SetBalanceRejected(v)
  /\ AdminStmt(TRUE, IF db.users[u].exists
                       THEN [db.users EXCEPT ![u].balance = Least(v, MaxBalance)]
                       ELSE db.users)

\* PUT users/[id]/default-balance
updateUserDefaultBalance(u, v) ==
  /\ ~SetBalanceRejected(v)
  /\ AdminStmt(TRUE, IF db.users[u].exists
                       THEN [db.users EXCEPT ![u].default_balance = Least(v, MaxBalance)]
                       ELSE db.users)

\* POST users/[id]/reset-balance and POST users/reset-balances with a userId
resetUserBalanceToDefault(u) ==
  AdminStmt(TRUE, IF db.users[u].exists THEN ResetOneRow(db.users, u) ELSE db.users)

\* Number(result.rows[0].balance) is falsy when the balance is zero
Falsy(balance) == balance = Zero

\* POST users/[id]/reset-balance: resetUserBalanceToDefault throws without a
\* row (and when the statement fails), a falsy result is answered with 404
POST_reset_balance(u) ==
  /\ AdminBudget
  /\ batch' = Dirty
  /\ IF StmtFails \/ ~db.users[u].exists
       THEN /\ adm' = [Spend EXCEPT !.resp = Resp(500, "Failed to reset user balance", <<>>)]
            /\ UNCHANGED db
       ELSE LET users2 == ResetOneRow(db.users, u)
                result == users2[u].balance
            IN /\ db' = [db EXCEPT !.users = users2]
               /\ adm' = [Spend EXCEPT !.resp =
                            IF Falsy(result) THEN Resp(404, "User not found", <<>>)
                            ELSE Resp(200, "", <<result>>)]
  /\ UNCHANGED <<tx, req, clock, procEnv, sched, calc>>

(***************************************************************************)
(* POST users/reset-balances without a userId: the bulk reset, one action  *)
(* per awaited store call.                                                 *)
(***************************************************************************)
BulkStart(force, env) ==
  /\ adm.pc = "idle"
  /\ AdminBudget
  /\ adm' = IF force THEN [Spend EXCEPT !.force = TRUE, !.pc = "reset"]
             ELSE IF DueBeforeRead(env, Today)
               THEN [Spend EXCEPT !.pc = "check", !.now = <<Today>>]
             ELSE Spend
  /\ batch' = Dirty
  /\ UNCHANGED <<db, tx, req, clock, procEnv, sched, calc>>

\* a reset applied whatever the stored last reset
BulkCheck_NoStampCheck ==
  /\ adm.pc = "check"
  /\ adm' = IF ~StmtFails
              THEN [adm EXCEPT !.pc = "reset"] ELSE [IdleAdm EXCEPT !.ops = adm.ops]
  /\ UNCHANGED <<db, tx, req, batch, clock, procEnv, sched, calc>>

\* getLastResetDate inside shouldAutoResetNow, and the month comparison
BulkCheck ==
  /\ adm.pc = "check"
  /\ adm' = IF ~StmtFails /\ NotResetThisMonth(db.lastReset, adm.now[1])
              THEN [adm EXCEPT !.pc = "reset"] ELSE [IdleAdm EXCEPT !.ops = adm.ops]
  /\ UNCHANGED <<db, tx, req, batch, clock, procEnv, sched, calc>>

\* resetAllBalancesToDefault
BulkReset ==
  /\ adm.pc = "reset"
  /\ IF StmtFails THEN adm' = [IdleAdm EXCEPT !.ops = adm.ops] /\ UNCHANGED db
     ELSE /\ db' = [db EXCEPT !.users = ResetAllRows(db.users)]
          /\ adm' = [adm EXCEPT !.pc = "stamp",
                                !.count = Cardinality(RowsTouched(db.users))]
  /\ batch' = Dirty
  /\ UNCHANGED <<tx, req, clock, procEnv, sched, calc>>

\* updateLastResetDate
BulkStamp ==
  /\ adm.pc = "stamp"
  /\ IF StmtFails THEN UNCHANGED db
     ELSE db' = [db EXCEPT !.lastReset = <<Today>>]
  /\ adm' = [IdleAdm EXCEPT !.ops = adm.ops]
  /\ batch' = Dirty
  /\ UNCHANGED <<tx, req, clock, procEnv, sched, calc>>

(***************************************************************************)
(* lib/scheduler: checkAndReset, one action per awaited store call.        *)
(***************************************************************************)
\* query() rejects: the session's transaction is aborted, or the store is
\* out of reach
QueryFails == StmtFails \/ ~procEnv.dbUp

\* the slot of the next checkAndReset call
HasFreeTick == \E t \in TickIds : sched.ticks[t].pc = "idle"
FreeTick ==
  CHOOSE t \in TickIds :
    /\ sched.ticks[t].pc = "idle"
    /\ \A q \in TickIds : q < t => sched.ticks[q].pc # "idle"

\* the call returns
EndTick(s, t) == [s EXCEPT !.ticks[t] = IdleTick]

Swallow_StopsTimer(s, t) ==
  [s EXCEPT !.ticks[t] = IdleTick, !.caught = s.ticks[t].pc, !.timers = 0,
            !.schedulerInterval = FALSE, !.isInitialized = FALSE]

\* lines 83-85: the catch block logs the error; the call ends
Swallow(s, t) == [s EXCEPT !.ticks[t] = IdleTick, !.caught = s.ticks[t].pc]

\* lines 68-69 and 36-46: now = new Date(), then shouldAutoResetNow up to
\* its first await
StartCheck(s, by) ==
  IF DueBeforeRead(procEnv.BALANCE_RESET_DAY, Today)
    THEN [s EXCEPT !.ticks[FreeTick] =
                     [IdleTick EXCEPT !.pc = "check", !.by = by, !.now = <<Today>>]]
    ELSE s

CheckRead_NoStampCheck(t) ==
  /\ sched.ticks[t].pc = "check"
  /\ sched' = IF QueryFails THEN Swallow(sched, t)
              ELSE [sched EXCEPT !.ticks[t].pc = "reset"]
  /\ UNCHANGED <<db, tx, req, batch, adm, clock, procEnv, calc>>

\* lines 49-62: getLastResetDate and the month comparison
CheckRead(t) ==
  /\ sched.ticks[t].pc = "check"
  /\ sched' = IF QueryFails THEN Swallow(sched, t)
              ELSE IF NotResetThisMonth(db.lastReset, sched.ticks[t].now[1])
                THEN [sched EXCEPT !.ticks[t].pc = "reset"]
              ELSE EndTick(sched, t)
  /\ UNCHANGED <<db, tx, req, batch, adm, clock, procEnv, calc>>

\* line 79: resetAllBalancesToDefault
CheckReset(t) ==
  /\ sched.ticks[t].pc = "reset"
  /\ IF QueryFails
       THEN sched' = Swallow(sched, t) /\ UNCHANGED db
       ELSE /\ db' = [db EXCEPT !.users = ResetAllRows(db.users)]
            /\ sched' = [sched EXCEPT !.ticks[t].pc = "stamp",
                                      !.ticks[t].count = Cardinality(RowsTouched(db.users)),
                                      !.ticks[t].pre = <<db.users>>]
  /\ batch' = Dirty
  /\ UNCHANGED <<tx, req, adm, clock, procEnv, calc>>

\* line 80: updateLastResetDate writes new Date()
CheckStamp(t) ==
  /\ sched.ticks[t].pc = "stamp"
  /\ IF QueryFails
       THEN sched' = Swallow(sched, t) /\ UNCHANGED db
       ELSE /\ db' = [db EXCEPT !.lastReset = <<Today>>]
            /\ sched' = EndTick(sched, t)
  /\ batch' = Dirty
  /\ UNCHANGED <<tx, req, adm, clock, procEnv, calc>>

checkAndReset(t) == CheckRead(t) \/ CheckReset(t) \/ CheckStamp(t)

\* the recurring timer calls checkAndReset
TimerFire ==
  /\ sched.timers > 0
  /\ HasFreeTick
  /\ sched' = StartCheck(sched, "timer")
  /\ UNCHANGED <<db, tx, req, batch, adm, clock, procEnv, calc>>

InitEffect_NoGuard(s) ==
  IF ~isAutoResetEnabled(procEnv.BALANCE_RESET_DAY) THEN s
  ELSE [StartCheck(s, "init") EXCEPT !.schedulerInterval = TRUE,
                                     !.timers = @ + 1,
                                     !.isInitialized = TRUE]

\* lines 89-114
InitEffect(s) ==
  IF s.isInitialized THEN s
  ELSE IF ~isAutoResetEnabled(procEnv.BALANCE_RESET_DAY) THEN s
  ELSE [StartCheck(s, "init") EXCEPT !.schedulerInterval = TRUE,
                                     !.timers = @ + 1,
                                     !.isInitialized = TRUE]

initScheduler ==
  /\ HasFreeTick
  /\ sched' = InitEffect(sched)
  /\ UNCHANGED <<db, tx, req, batch, adm, clock, procEnv, calc>>

StopEffect_KeepTimer(s) ==
  IF s.schedulerInterval
    THEN [s EXCEPT !.schedulerInterval = FALSE, !.isInitialized = FALSE, !.stopped = TRUE]
    ELSE s

\* lines 117-124
StopEffect(s) ==
  IF s.schedulerInterval
    THEN [s EXCEPT !.schedulerInterval = FALSE, !.timers = @ - 1,
                   !.isInitialized = FALSE, !.stopped = TRUE]
    ELSE s

stopScheduler ==
  /\ sched' = StopEffect(sched)
  /\ UNCHANGED <<db, tx, req, batch, adm, clock, procEnv, calc>>

\* lines 127-139
getSchedulerStatus ==
  [enabled |-> isAutoResetEnabled(procEnv.BALANCE_RESET_DAY),
   resetDay |-> getConfiguredResetDay(procEnv.BALANCE_RESET_DAY),
   effectiveResetDay |-> getEffectiveResetDay(procEnv.BALANCE_RESET_DAY, Today),
   isRunning |-> sched.isInitialized]

\* lib/runtime.ts
ensureRuntimeInitialized ==
  /\ HasFreeTick
  /\ sched' = IF sched.runtimeInitialized THEN sched
              ELSE InitEffect([sched EXCEPT !.runtimeInitialized = TRUE])
  /\ UNCHANGED <<db, tx, req, batch, adm, clock, procEnv, calc>>

\* POST users/reset-balances with a userId (lines 47-58, 88-96): every existing
\* row is answered with success and its new balance, an error with status 500
\* and the error's message
POST_reset_balances_user(u) ==
  /\ AdminBudget
  /\ HasFreeTick
  /\ sched' = IF sched.runtimeInitialized THEN sched
              ELSE InitEffect([sched EXCEPT !.runtimeInitialized = TRUE])
  /\ batch' = Dirty
  /\ IF StmtFails
       THEN /\ adm' = [Spend EXCEPT !.resp = Resp(500, "query failed", <<>>)]
            /\ UNCHANGED db
     ELSE IF ~db.users[u].exists
       THEN /\ adm' = [Spend EXCEPT !.resp = Resp(500, "User not found", <<>>)]
            /\ UNCHANGED db
     ELSE LET users2 == ResetOneRow(db.users, u)
          IN /\ db' = [db EXCEPT !.users = users2]
             /\ adm' = [Spend EXCEPT !.resp = Resp(200, "", <<users2[u].balance>>)]
  /\ UNCHANGED <<tx, req, clock, procEnv, calc>>

\* the store goes out of reach and comes back
Outage ==
  /\ procEnv' = [procEnv EXCEPT !.dbUp = ~@]
  /\ UNCHANGED <<db, tx, req, batch, adm, clock, sched, calc>>

(***************************************************************************)
(* Inputs.                                                                 *)
(***************************************************************************)
Msg(c, t) == [chars |-> c, toks |-> t]
MsgKinds == {Msg(0, 0), Msg(8, 2), Msg(25000, 6000), Msg(25001, 6001)}
MsgSeqs == UNION {[1..n -> MsgKinds] : n \in 0..MaxMsgs}
UsageVals == {NoUsage, Usage(1000, 500), Usage(1000, 0), Usage(0, 500)}

EnvPriceVals ==
  {Unset, Str(<<>>), Str(<<"a", "b", "c">>), Str(<<"-", "1">>), Str(<<"3">>),
   Str(<<"1", "2", "a">>), Str(<<"0">>)}
EnvInitVals == {Unset, Str(<<"1", "0", "0", "0", "0", "0", "0">>), Str(<<"x">>)}
EnvDayVals == {Unset, Str(<<"0">>), Str(<<"3", "1">>)}
BalanceVals == {MaxBalance, Money(1000000, 0)}

\* BALANCE_RESET_DAY: unset, empty, zero, negative, not a number, in range, too large
EnvDayCases ==
  {Unset, Str(<<>>), Str(<<"0">>), Str(<<"-", "5">>), Str(<<"x">>), Str(<<"1">>),
   Str(<<"1", "5">>), Str(<<"3", "1">>), Str(<<"4", "0">>)}

\* days of a 28-day and a leap February, of December, January and April
Months == {<<2023, 2>>, <<2023, 12>>, <<2024, 1>>, <<2024, 2>>, <<2024, 4>>}
Dates ==
  {Date(ym[1], ym[2], d) : ym \in Months, d \in {1, 15, 28, 29, 30, 31}}
  \cap {dt \in [year : {2023, 2024}, month : 1..12, day : 1..31] :
          dt.day <= LastDayOfMonth(dt.year, dt.month)}

BaseData == [bodyOk |-> TRUE, user |-> "u1", model |-> "m_tok", msgs |-> <<Msg(8, 2)>>,
             usage |-> Usage(1000, 500), inlet |-> 0, envIn |-> Unset, envOut |-> Unset,
             insertOk |-> TRUE]

TokenCases ==
  {[msgs |-> <<Msg(8, 2)>>, usage |-> Usage(1000, 500)],
   [msgs |-> <<Msg(0, 0)>>, usage |-> NoUsage],
   [msgs |-> <<Msg(8, 2), Msg(0, 0)>>, usage |-> NoUsage],
   [msgs |-> <<Msg(8, 2), Msg(8, 2)>>, usage |-> NoUsage]}

EstData == {[BaseData EXCEPT !.msgs = m, !.usage = u] : m \in MsgSeqs, u \in UsageVals}

PriceData ==
  {[BaseData EXCEPT !.model = mo, !.msgs = t.msgs, !.usage = t.usage] :
     mo \in {"m_tok", "m_fix"}, t \in TokenCases}
  \cup
  {[BaseData EXCEPT !.model = "m_none", !.envIn = a, !.envOut = b,
                    !.msgs = t.msgs, !.usage = t.usage] :
     a \in EnvPriceVals, b \in EnvPriceVals, t \in TokenCases}

\* the requests of the sequential specification: every way a charge ends
LedgerData ==
  {BaseData,
   [BaseData EXCEPT !.inlet = 20],
   [BaseData EXCEPT !.model = "m_fix"],
   [BaseData EXCEPT !.msgs = <<Msg(0, 0)>>, !.usage = NoUsage, !.inlet = 3000],
   [BaseData EXCEPT !.user = "u2"],
   [BaseData EXCEPT !.insertOk = FALSE],
   [BaseData EXCEPT !.bodyOk = FALSE],
   [BaseData EXCEPT !.msgs = <<>>],
   [BaseData EXCEPT !.model = "m_none", !.envOut = Str(<<"-", "1">>)]}

\* the requests of the concurrent specification
ConcData ==
  {BaseData,
   [BaseData EXCEPT !.msgs = <<Msg(0, 0)>>, !.usage = NoUsage, !.inlet = 3000],
   [BaseData EXCEPT !.insertOk = FALSE]}

\* the requests made next to the scheduler: a charge that commits, one that fails
SchedData == {BaseData, [BaseData EXCEPT !.insertOk = FALSE]}


\* default balances set next to the resets
DefaultVals == {Zero, Money(50, 0)}

(***************************************************************************)
(* Specifications.                                                         *)
(***************************************************************************)
Init ==
  /\ db = [users |-> [u \in UserIds |->
                        IF u = "u1" THEN Row(Money(100, 0), Money(100, 0)) ELSE NoRow],
           records |-> <<>>,
           lastReset |-> <<>>]
  /\ tx = NoTx
  /\ req = [r \in Reqs |-> IdleReq]
  /\ batch = NoBatch
  /\ adm = IdleAdm
  /\ clock = 1
  /\ procEnv = DefaultEnv
  /\ sched = IdleSched
  /\ calc = NoCalc

Admin ==
  \/ \E u \in UserIds, e \in EnvInitVals : getOrCreateUser(u, e)
  \/ \E u \in UserIds : deleteUser(u)
  \/ \E u \in UserIds, v \in BalanceVals : updateUserBalance(u, v)
  \/ \E u \in UserIds, v \in BalanceVals : updateUserDefaultBalance(u, v)
  \/ \E u \in UserIds : resetUserBalanceToDefault(u)
  \/ \E f \in BOOLEAN, e \in EnvDayVals : BulkStart(f, e)

Bulk == BulkCheck \/ BulkReset \/ BulkStamp

\* every request, administrative call and clock tick may interleave
Next ==
  \/ \E r \in Reqs, d \in ConcData : Receive(r, d)
  \/ \E r \in Reqs : ChargeStep(r)
  \/ Admin
  \/ Bulk
  \/ Tick

Spec == Init /\ [][Next]_vars

\* overlapping requests alone, against a store that administrative calls have
\* left with the account's balance as created or at the cap (updateUserBalance),
\* active or soft-deleted (deleteUser)
InitConc ==
  /\ \E b \in {Money(100, 0), MaxBalance}, del \in BOOLEAN :
       db = [users |-> [u \in UserIds |->
                          IF u = "u1"
                            THEN [Row(b, Money(100, 0)) EXCEPT !.deleted = del]
                            ELSE NoRow],
             records |-> <<>>,
             lastReset |-> <<>>]
  /\ tx = NoTx
  /\ req = [r \in Reqs |-> IdleReq]
  /\ batch = NoBatch
  /\ adm = IdleAdm
  /\ clock = 1
  /\ procEnv = DefaultEnv
  /\ sched = IdleSched
  /\ calc = NoCalc

NextConc ==
  \/ \E r \in Reqs, d \in ConcData : Receive(r, d)
  \/ \E r \in Reqs : ChargeStep(r)

SpecConc == InitConc /\ [][NextConc]_vars

\* the reset-day functions of lib/scheduler evaluated once, on every setting,
\* date and stored last reset
InitDue ==
  /\ db = [users |-> [u \in UserIds |-> NoRow], records |-> <<>>, lastReset |-> <<>>]
  /\ tx = NoTx
  /\ req = [r \in Reqs |-> IdleReq]
  /\ batch = NoBatch
  /\ adm = IdleAdm
  /\ clock = 1
  /\ procEnv = DefaultEnv
  /\ sched = IdleSched
  /\ \E e \in EnvDayCases, d \in Dates, l \in {<<>>} \cup {<<x>> : x \in Dates} :
       calc = [done |-> FALSE, env |-> e, date |-> d, lastReset |-> l]

Evaluate ==
  /\ ~calc.done
  /\ calc' = [done |-> TRUE, env |-> calc.env, date |-> calc.date,
               lastReset |-> calc.lastReset,
               enabled |-> isAutoResetEnabled(calc.env),
               configured |-> getConfiguredResetDay(calc.env),
               effective |-> getEffectiveResetDay(calc.env, calc.date),
               due |-> shouldAutoResetNow(calc.env, calc.date, calc.lastReset)]
  /\ UNCHANGED <<db, tx, req, batch, adm, clock, procEnv, sched>>

SpecDue == InitDue /\ [][Evaluate]_vars

\* one call at a time: a call starts when no other is in progress
Quiet == adm.pc = "idle" /\ \A r \in Reqs : ~Active(r)

NextSeq ==
  \/ Quiet /\ \E r \in Reqs, d \in LedgerData : Receive(r, d)
  \/ \E r \in Reqs : ChargeStep(r)
  \/ Quiet /\ Admin
  \/ Bulk

SpecSeq == Init /\ [][NextSeq]_vars

\* a single request, over every input of the estimator and the price lookup
NextCalc ==
  \/ \E d \in EstData \cup PriceData : Receive(1, d)
  \/ ChargeStep(1)

SpecCalc == Init /\ [][NextCalc]_vars

\* a process started with one of the settings of BALANCE_RESET_DAY, on a
\* store with one active account and a second row among rows
InitWith(rows) ==
  /\ \E row \in rows :
       db = [users |-> [u \in UserIds |->
                          IF u = "u1" THEN Row(Money(100, 0), Money(100, 0)) ELSE row],
             records |-> <<>>,
             lastReset |-> <<>>]
  /\ tx = NoTx
  /\ req = [r \in Reqs |-> IdleReq]
  /\ batch = NoBatch
  /\ adm = IdleAdm
  /\ clock = 1
  /\ \E e \in EnvDayVals : procEnv = [BALANCE_RESET_DAY |-> e, dbUp |-> TRUE]
  /\ sched = IdleSched
  /\ calc = NoCalc

InitSched == InitWith({NoRow})

\* the scheduler started and stopped in any order, with its timer, its
\* due-checks and the clock
NextSched ==
  \/ initScheduler
  \/ stopScheduler
  \/ ensureRuntimeInitialized
  \/ TimerFire
  \/ \E t \in TickIds : checkAndReset(t)
  \/ Tick

SpecSched == InitSched /\ [][NextSched]_vars

\* the due-checks of the started scheduler and of the manual bulk reset, every
\* step of one interleaved with the steps of the others
NextOverlap ==
  \/ ensureRuntimeInitialized
  \/ TimerFire
  \/ \E t \in TickIds : checkAndReset(t)
  \/ \E f \in BOOLEAN : BulkStart(f, procEnv.BALANCE_RESET_DAY)
  \/ Bulk
  \/ Tick

SpecOverlap == InitSched /\ [][NextOverlap]_vars

\* the started scheduler on a store that goes out of reach and comes back
NextSchedLive ==
  \/ ensureRuntimeInitialized
  \/ TimerFire
  \/ \E t \in TickIds : checkAndReset(t)
  \/ Tick
  \/ Outage

\* the timer keeps firing and a call of checkAndReset in progress goes on
SpecSchedLive ==
  /\ InitSched
  /\ [][NextSchedLive]_vars
  /\ WF_vars(TimerFire)
  /\ \A t \in TickIds : WF_vars(checkAndReset(t))

\* the second account is soft-deleted with a balance off its default
InitSchedSeq ==
  InitWith({[Row(Money(40, 0), Money(100, 0)) EXCEPT !.deleted = TRUE]})

\* no call in progress: no request, no administrative call, no due-check
QuietSched == Quiet /\ \A t \in TickIds : sched.ticks[t].pc = "idle"

\* due-checks, bulk resets, charges and administrative calls one at a time
NextSchedSeq ==
  \/ QuietSched /\ ensureRuntimeInitialized
  \/ QuietSched /\ TimerFire
  \/ \E t \in TickIds : checkAndReset(t)
  \/ QuietSched /\ \E f \in BOOLEAN : BulkStart(f, procEnv.BALANCE_RESET_DAY)
  \/ Bulk
  \/ QuietSched /\ \E r \in Reqs, d \in SchedData : Receive(r, d)
  \/ \E r \in Reqs : ChargeStep(r)
  \/ QuietSched /\ \E u \in UserIds : deleteUser(u)
  \/ Tick
  \/ Outage

SpecSchedSeq == InitSchedSeq /\ [][NextSchedSeq]_vars

\* the second account has no row, or was created with no INIT_BALANCE (default
\* balance 0) and holds 40 since
InitResetOne == InitWith({NoRow, Row(Money(40, 0), Zero)})

\* single-user resets through both endpoints, default-balance updates,
\* charges and the scheduler with its bulk reset, one call at a time
NextResetOne ==
  \/ QuietSched /\ \E u \in UserIds : POST_reset_balance(u)
  \/ QuietSched /\ \E u \in UserIds : POST_reset_balances_user(u)
  \/ QuietSched /\ \E u \in UserIds, v \in DefaultVals : updateUserDefaultBalance(u, v)
  \/ QuietSched /\ \E r \in Reqs, d \in SchedData : Receive(r, d)
  \/ \E r \in Reqs : ChargeStep(r)
  \/ QuietSched /\ ensureRuntimeInitialized
  \/ QuietSched /\ TimerFire
  \/ \E t \in TickIds : checkAndReset(t)
  \/ Tick

SpecResetOne == InitResetOne /\ [][NextResetOne]_vars

\* manual bulk resets, forced and not, the scheduler and charges, one call at
\* a time, on a store that stays in reach
NextManual ==
  \/ QuietSched /\ ensureRuntimeInitialized
  \/ QuietSched /\ TimerFire
  \/ \E t \in TickIds : checkAndReset(t)
  \/ QuietSched /\ \E f \in BOOLEAN : BulkStart(f, procEnv.BALANCE_RESET_DAY)
  \/ Bulk
  \/ QuietSched /\ \E r \in Reqs, d \in SchedData : Receive(r, d)
  \/ \E r \in Reqs : ChargeStep(r)
  \/ Tick

SpecManual == InitSched /\ [][NextManual]_vars

TypeOK ==
  /\ \A u \in UserIds : db.users[u].balance.f \in 0..(Scale - 1)
  /\ tx.state \in {"none", "open", "aborted"}
  /\ \A r \in Reqs : req[r].pc \in {"idle", "price", "update", "insert", "commit",
                                     "rollback", "done", "failed", "closed"}
  /\ adm.pc \in {"idle", "check", "reset", "stamp"}
  /\ clock \in 1..Len(Calendar)

(***************************************************************************)
(* Properties.                                                             *)
(***************************************************************************)
RecordsOf(r) == {i \in DOMAIN db.records : db.records[i].cid = r}
Computed(r) == req[r].pc \in {"update", "insert", "commit", "done"}
Debited(r) == req[r].pc \in {"insert", "commit", "done"}
Failing(r) == req[r].pc \in {"rollback", "failed"}

\* C1: when a charge has failed, at whatever step, every user's balance and
\* the usage records are what they were when the request arrived (charges
\* made one after another, SpecSeq).
C1_FailedChargeLeavesNoTrace ==
  \A r \in Reqs :
    req[r].pc = "failed" =>
      /\ db.users = req[r].pre[1].users
      /\ db.records = req[r].pre[1].records

\* a charge failed at the INSERT, after its UPDATE had changed the balance,
\* and after an earlier charge had been committed
C1_Witness ==
  \E r \in Reqs :
    /\ req[r].pc = "failed"
    /\ req[r].error = "INSERT"
    /\ req[r].newBalance # req[r].balBefore
    /\ db.records # <<>>

\* C2: in every reachable state every user's balance is at most 999999.9999.
C2_BalanceAtMostMax ==
  \A u \in UserIds : db.users[u].exists => MLeq(db.users[u].balance, MaxBalance)

\* C3: a charge whose balance minus net cost would exceed 999999.9999 is
\* rejected with BALANCE_OVERFLOW: it never goes on to write its usage record
\* or to commit.
C3_OverflowRejected ==
  \A r \in Reqs :
    Debited(r) =>
      ~MLess(MaxBalance, DebitNoCap(req[r].balBefore, req[r].actualCost))

\* C4: when charges that overlapped in time have all succeeded (and nothing
\* else touched the store meanwhile), every user's balance is the balance
\* before them minus the sum of their net costs, unless a debit of that user
\* hit the cap, in which case it is at most the cap; each charge has exactly
\* one usage record, and nothing is left uncommitted.
C4_NoLostDecrement ==
  (batch.clean /\ \A r \in Reqs : ~InFlight(r)) =>
    /\ tx.state = "none"
    /\ \A u \in UserIds :
         IF u \in batch.capped
           THEN MLeq(db.users[u].balance, MaxBalance)
           ELSE db.users[u].balance = SubTicks(batch.base[1][u].balance, batch.debits[u])
    /\ \A r \in batch.members : Cardinality(RecordsOf(r)) = 1

\* two charges against the same user, the second received while the first was
\* in progress, have both succeeded
C4_Witness ==
  /\ batch.clean
  /\ batch.overlap
  /\ batch.capped = {}
  /\ \A r \in Reqs : ~InFlight(r)
  /\ \E r1, r2 \in batch.members :
       /\ r1 # r2
       /\ req[r1].pc = "done" /\ req[r2].pc = "done"
       /\ req[r1].data.user = req[r2].data.user
       /\ CastDec4(req[r1].actualCost) # 0 /\ CastDec4(req[r2].actualCost) # 0

\* C5: the total cost is 0 when there are no output tokens, else the
\* per-message price when that is not negative, else
\* input_tokens/1e6 * input_price + output_tokens/1e6 * output_price.
C5_CostRule ==
  \A r \in Reqs :
    Computed(r) =>
      LET p == req[r].price
          i == req[r].tok.inputTokens
          o == req[r].tok.outputTokens
      IN /\ o = 0 => req[r].totalCost = 0
         /\ (o # 0 /\ p.per_msg_price >= 0) => req[r].totalCost = p.per_msg_price
         /\ (o # 0 /\ p.per_msg_price < 0) =>
              req[r].totalCost = i * p.input_price + o * p.output_price

\* a request without output tokens for a model with a fixed price costs nothing
C5_Witness ==
  \E r \in Reqs :
    /\ req[r].pc = "update"
    /\ req[r].price.per_msg_price > 0
    /\ req[r].tok.outputTokens = 0
    /\ req[r].totalCost = 0

\* C6: every charge that got past the balance update has debited the balance
\* by exactly its net cost (to the store's four decimals), and once its
\* record is written there is exactly one, with balance_after the new
\* balance and with the tokens and cost of the charge.
C6_DebitIsNetCost ==
  \A r \in Reqs :
    /\ Debited(r) =>
         req[r].newBalance = DebitNoCap(req[r].balBefore, req[r].actualCost)
    /\ req[r].pc = "commit" =>
         /\ Cardinality(RecordsOf(r)) = 1
         /\ \A i \in RecordsOf(r) :
              /\ db.records[i].balance_after = req[r].newBalance
              /\ db.records[i].input_tokens = req[r].tok.inputTokens
              /\ db.records[i].output_tokens = req[r].tok.outputTokens
              /\ db.records[i].cost = req[r].totalCost

\* C7: whenever the last message carries prompt and completion counts, the
\* estimator returns those counts, with the reported source.
C7_ReportedVerbatim ==
  \A r \in Reqs :
    (Computed(r) /\ req[r].data.usage.present) =>
      /\ req[r].tok.tokenSource = "LLM_USAGE"
      /\ req[r].tok.inputTokens = req[r].data.usage.prompt_tokens
      /\ req[r].tok.outputTokens = req[r].data.usage.completion_tokens

\* C8: without reported counts the estimate is used exactly when the
\* messages hold more than 50,000 characters, so the tokenizer never runs on
\* more; the estimated output and total are the character counts divided by
\* 4 (rounded up), input is total minus output and is not negative.
C8_EstimationThreshold ==
  \A r \in Reqs :
    (Computed(r) /\ req[r].tok.tokenSource # "LLM_USAGE") =>
      LET chars == SumChars(req[r].data.msgs)
          outChars == req[r].data.msgs[Len(req[r].data.msgs)].chars
          o == req[r].tok.outputTokens
          t == req[r].tok.inputTokens + req[r].tok.outputTokens
      IN /\ req[r].tok.tokenSource \in {"ESTIMATION", "TOKENIZER"}
         /\ req[r].tok.tokenSource = "ESTIMATION" <=> chars > 50000
         /\ req[r].tok.tokenSource = "ESTIMATION" =>
              /\ 4 * (o - 1) < outChars /\ outChars <= 4 * o
              /\ 4 * (t - 1) < chars /\ chars <= 4 * t
              /\ req[r].tok.inputTokens >= 0

\* 50,001 characters without reported counts are estimated
C8_Witness ==
  \E r \in Reqs :
    /\ req[r].pc = "update"
    /\ ~req[r].data.usage.present
    /\ SumChars(req[r].data.msgs) = 50001
    /\ req[r].tok.tokenSource = "ESTIMATION"
    /\ req[r].tok.inputTokens > 0

\* how a default-price setting reads: missing (unset or empty), the text
\* after an optional sign, whether that text starts with a digit, whether
\* the whole text is a number, whether the number is below zero
Missing(e) == ~e.set \/ e.val = <<>>
Unsigned(s) == IF s # <<>> /\ Head(s) \in {"-", "+"} THEN Tail(s) ELSE s
StartsWithNumber(s) == Unsigned(s) # <<>> /\ IsDigit(Head(Unsigned(s)))
WholeNumber(s) == StartsWithNumber(s) /\ \A i \in DOMAIN Unsigned(s) : IsDigit(Unsigned(s)[i])
BelowZero(s) ==
  /\ StartsWithNumber(s)
  /\ Head(s) = "-"
  /\ \E i \in 1..DigitsLen(Unsigned(s)) : Unsigned(s)[i] # "0"
NoStoredPrice(r) ==
  /\ req[r].pc \notin {"idle", "price", "closed"}
  /\ req[r].data.bodyOk
  /\ req[r].data.model \notin DOMAIN ModelPrices

\* C9 as stated: without a stored price, a default that is missing, not a
\* number or negative makes the charge fail with PRICE_NOT_FOUND.
C9_MissingDefaultIsNotFound ==
  \A r \in Reqs :
    (/\ NoStoredPrice(r)
     /\ \E e \in {req[r].data.envIn, req[r].data.envOut} :
          Missing(e) \/ ~WholeNumber(e.val) \/ BelowZero(e.val)) =>
      (Failing(r) /\ req[r].error = "PRICE_NOT_FOUND")

\* C9 amended: without a stored price, the lookup finds no price exactly when
\* one of the two settings is present and either does not start with a number
\* or is negative; the charge then fails, debits nothing and records nothing.
\* A missing setting is read as 60.
C9_DefaultPriceResolution ==
  \A r \in Reqs :
    NoStoredPrice(r) =>
      IF \E e \in {req[r].data.envIn, req[r].data.envOut} :
           ~Missing(e) /\ (~StartsWithNumber(e.val) \/ BelowZero(e.val))
        THEN /\ Failing(r)
             /\ req[r].error = "PRICE_NOT_FOUND"
             /\ RecordsOf(r) = {}
             /\ db.users = req[r].pre[1].users
        ELSE /\ req[r].error # "PRICE_NOT_FOUND"
             /\ (Computed(r) /\ Missing(req[r].data.envIn)) => req[r].price.input_price = 60
             /\ (Computed(r) /\ Missing(req[r].data.envOut)) => req[r].price.output_price = 60

\* a charge for a model without stored price has failed on a negative default
C9_Witness ==
  \E r \in Reqs :
    /\ req[r].pc = "failed"
    /\ req[r].error = "PRICE_NOT_FOUND"
    /\ req[r].data.model = "m_none"
    /\ BelowZero(req[r].data.envOut.val)
    /\ StartsWithNumber(req[r].data.envIn.val)

\* C10: a charge gets past the balance update only for an active user row:
\* for an unknown id and for a soft-deleted account it fails instead.
C10_InactiveUserRejected ==
  \A r \in Reqs :
    Debited(r) =>
      /\ db.users[req[r].data.user].exists
      /\ ~db.users[req[r].data.user].deleted

\* the number of the month of a date, counted across years
MonthIndex(d) == d.year * 12 + d.month

\* C11: the reset is not due when auto-reset is disabled, when the day is
\* before the effective reset day of the month, or when the last reset is in
\* the same month of the same year; it is due in every other case, also when
\* no reset was ever recorded.
C11_DueRule ==
  calc.done =>
    LET d == calc.date
        l == calc.lastReset
        sameMonth == l # <<>> /\ l[1].year = d.year /\ l[1].month = d.month
    IN /\ ~calc.enabled => ~calc.due
       /\ (calc.enabled /\ d.day < calc.effective.val) => ~calc.due
       /\ sameMonth => ~calc.due
       /\ (calc.enabled /\ d.day >= calc.effective.val /\ ~sameMonth) => calc.due

\* a reset recorded in February of the year before does not stop this
\* February's
C11_Witness ==
  /\ calc.done
  /\ calc.due
  /\ calc.lastReset # <<>>
  /\ calc.lastReset[1].month = calc.date.month
  /\ calc.lastReset[1].year < calc.date.year

\* C12: when the reset day of a month passed without a reset (the last reset
\* is older than that month), a due-check made afterwards, in that month or
\* in a later one, finds the reset due; with day 1 and a last reset two
\* months old it is due on every day.
C12_CatchUp ==
  (calc.done /\ calc.enabled /\ calc.lastReset # <<>>) =>
    LET d == calc.date
        last == MonthIndex(calc.lastReset[1])
    IN /\ (last < MonthIndex(d) /\ d.day >= calc.effective.val) => calc.due
       /\ last < MonthIndex(d) - 1 => calc.due

\* a call of checkAndReset takes the step named by the two positions
TickStep(t, from, to) == sched.ticks[t].pc = from /\ sched'.ticks[t].pc = to

\* the last reset stored is in the month of the date
StampedIn(date) == ~NotResetThisMonth(db.lastReset, date)

\* C13: once a reset is stamped, a due-check made by the scheduler in the
\* same month evaluates to false, and no step of the scheduler applies a
\* reset or changes a balance while the stamp is of the current month (calls
\* made one after another): one bulk reset per month, later charges stay.
C13_OncePerMonth ==
  [][\A t \in TickIds :
       /\ (sched.ticks[t].pc = "check" /\ StampedIn(sched.ticks[t].now[1]))
            => sched'.ticks[t].pc # "reset"
       /\ StampedIn(Today) => ~TickStep(t, "reset", "stamp")
       /\ (StampedIn(Today) /\ sched' # sched) => db'.users = db.users]_vars

\* after a stamped reset and a later charge, the next due-check of the same
\* month is about to read the stamp
C13_Witness ==
  \E t \in TickIds :
    /\ sched.ticks[t].pc = "check"
    /\ StampedIn(sched.ticks[t].now[1])
    /\ db.records # <<>>
    /\ db.users["u1"].balance # db.users["u1"].default_balance

\* C14: whatever the interleaving of due-checks (of the scheduler, or of a
\* manual bulk reset that was not forced), a reset is applied only while no
\* reset of the current month is stamped and no other due-check has applied
\* one that it has yet to stamp.
C14_OverlapSafe ==
  [][/\ \A t \in TickIds :
          TickStep(t, "reset", "stamp") =>
            /\ ~StampedIn(Today)
            /\ \A q \in TickIds \ {t} : sched.ticks[q].pc # "stamp"
            /\ ~(adm.pc = "stamp" /\ ~adm.force)
     /\ (adm.pc = "reset" /\ ~adm.force /\ adm'.pc = "stamp") =>
          /\ ~StampedIn(Today)
          /\ \A q \in TickIds : sched.ticks[q].pc # "stamp"]_vars

\* C15: an error in a step of checkAndReset ends that call and leaves the
\* timer and isInitialized as they were; and when from some time on the store
\* is in reach and the timer is live, then from some time on a reset that is
\* due is stamped for its month.
C15_TickErrorsSwallowed ==
  /\ [][\A t \in TickIds :
          (sched.ticks[t].pc # "idle" /\ QueryFails /\ sched'.ticks[t].pc = "idle") =>
            /\ sched'.timers = sched.timers
            /\ sched'.isInitialized = sched.isInitialized
            /\ sched'.schedulerInterval = sched.schedulerInterval]_vars
  /\ (<>[](procEnv.dbUp /\ sched.timers > 0)) =>
       <>[](DueBeforeRead(procEnv.BALANCE_RESET_DAY, Today) => StampedIn(Today))

\* the last error was in the write of the stamp, the scheduler is still
\* running, the store is back and a reset of the current month is stamped
C15_Witness ==
  /\ sched.caught = "stamp"
  /\ procEnv.dbUp
  /\ sched.isInitialized
  /\ sched.timers = 1
  /\ StampedIn(Today)
  /\ \A t \in TickIds : sched.ticks[t].pc = "idle"

\* C16: there is at most one timer, isRunning is reported exactly when there
\* is one, and initScheduler makes its immediate due-check only in the step
\* that starts the timer.
C16_InitIdempotent ==
  /\ [](/\ sched.timers <= 1
        /\ getSchedulerStatus.isRunning <=> sched.timers = 1
        /\ sched.schedulerInterval <=> sched.timers = 1)
  /\ [][\A t \in TickIds :
          (TickStep(t, "idle", "check") /\ sched'.ticks[t].by = "init") =>
            (~sched.isInitialized /\ sched'.isInitialized
               /\ sched'.timers = sched.timers + 1)]_vars

\* the scheduler runs, started by ensureRuntimeInitialized, with its
\* immediate due-check in progress
C16_Witness ==
  /\ sched.runtimeInitialized
  /\ sched.isInitialized
  /\ sched.timers = 1
  /\ \E t \in TickIds : sched.ticks[t].pc = "check" /\ sched.ticks[t].by = "init"

\* the day the setting of the process reads as is zero, negative or no number
Disabled ==
  LET day == ResetDaySetting(procEnv.BALANCE_RESET_DAY) IN day.nan \/ day.val <= 0

\* C17: with auto-reset disabled, whatever was called, there is no timer, no
\* due-check in progress, no reset stamped by the scheduler, and the
\* scheduler state is the one before initScheduler.
C17_DisabledDoesNothing ==
  Disabled =>
    /\ sched.timers = 0
    /\ ~sched.schedulerInterval
    /\ ~sched.isInitialized
    /\ \A t \in TickIds : sched.ticks[t].pc = "idle"
    /\ db.lastReset = <<>>

\* disabled, after ensureRuntimeInitialized has called initScheduler, on a
\* later day
C17_Witness ==
  /\ Disabled
  /\ sched.runtimeInitialized
  /\ clock > 1
  /\ sched.timers = 0

\* C18: after stopScheduler no timer is live, and only a live timer starts a
\* due-check; initScheduler after it starts one new timer and makes the
\* immediate due-check when the day is at or past the reset day; there are
\* never two timers.
C18_StopThenInit ==
  /\ [](/\ ~sched.isInitialized => sched.timers = 0
        /\ sched.timers <= 1)
  /\ [][/\ \A t \in TickIds :
             (TickStep(t, "idle", "check") /\ sched'.ticks[t].by = "timer") =>
               (sched.timers = 1 /\ sched.isInitialized)
        /\ (sched.stopped /\ ~sched.isInitialized /\ sched'.isInitialized) =>
             /\ sched'.timers = 1
             /\ DueBeforeRead(procEnv.BALANCE_RESET_DAY, Today) =>
                  \E t \in TickIds :
                    TickStep(t, "idle", "check") /\ sched'.ticks[t].by = "init"]_vars

\* stopped and started again, with one timer and the immediate due-check of
\* the restart in progress
C18_Witness ==
  /\ sched.stopped
  /\ sched.isInitialized
  /\ sched.timers = 1
  /\ \E t \in TickIds : sched.ticks[t].pc = "check" /\ sched.ticks[t].by = "init"

\* a bulk reset is applied in this step, by the scheduler or by the manual call
ResetApplied ==
  \/ \E t \in TickIds : TickStep(t, "reset", "stamp")
  \/ adm.pc = "reset" /\ adm'.pc = "stamp"

\* the count the reset applied in this step reports
ResetCount ==
  IF adm.pc = "reset" /\ adm'.pc = "stamp" THEN adm'.count
  ELSE sched'.ticks[CHOOSE t \in TickIds : TickStep(t, "reset", "stamp")].count

\* C20: a bulk reset sets the balance of every account that is not deleted to
\* its default and reports how many these are; it leaves deleted accounts,
\* every default, the usage records and the last-reset stamp as they were.
C20_ResetAllFrame ==
  [][ResetApplied =>
       /\ \A u \in UserIds :
            /\ db'.users[u].exists = db.users[u].exists
            /\ db'.users[u].deleted = db.users[u].deleted
            /\ db'.users[u].default_balance = db.users[u].default_balance
            /\ db'.users[u].balance =
                 IF db.users[u].exists /\ ~db.users[u].deleted
                   THEN db.users[u].default_balance ELSE db.users[u].balance
       /\ ResetCount = Cardinality({u \in UserIds : db.users[u].exists /\ ~db.users[u].deleted})
       /\ db'.records = db.records
       /\ db'.lastReset = db.lastReset]_vars

\* a reset by the scheduler has touched the one active account, charged
\* before, and left the deleted one off its default
C20_Witness ==
  /\ \E t \in TickIds : sched.ticks[t].pc = "stamp" /\ sched.ticks[t].count = 1
  /\ db.records # <<>>
  /\ db.users["u1"].balance = db.users["u1"].default_balance
  /\ db.users["u2"].deleted
  /\ db.users["u2"].balance # db.users["u2"].default_balance

\* C19: the configured reset day is an integer from 1 to 31, 1 when not set,
\* and the effective day is the smaller of it and the last day of the month.
C19_ResetDayRange ==
  calc.done =>
    /\ ~calc.configured.nan
    /\ calc.configured.val \in 1..31
    /\ ~calc.env.set => calc.configured.val = 1
    /\ ~calc.effective.nan
    /\ calc.effective.val =
         Min(calc.configured.val, LastDayOfMonth(calc.date.year, calc.date.month))
    /\ calc.effective.val \in 1..LastDayOfMonth(calc.date.year, calc.date.month)

\* the account a request charges
ChargedUser(r) == IF req[r].pc = "idle" THEN req'[r].data.user ELSE req[r].data.user

\* the stamp is written in this step by a bulk reset that completes
BulkResetCompletes ==
  \/ \E t \in TickIds : TickStep(t, "stamp", "idle")
  \/ adm.pc = "stamp" /\ adm'.pc = "idle"

\* C21: the last-reset stamp changes only in the step that completes a bulk
\* reset; a single-user reset through either endpoint, every step of a charge
\* and a default-balance update leave the stamp and the balance of every other
\* account as they were (a default-balance update leaves every balance).
C21_LastResetFrame ==
  [][/\ \A u \in UserIds :
          (POST_reset_balance(u) \/ POST_reset_balances_user(u)) =>
            /\ db'.lastReset = db.lastReset
            /\ \A w \in UserIds \ {u} : db'.users[w] = db.users[w]
     /\ \A u \in UserIds, v \in DefaultVals :
          updateUserDefaultBalance(u, v) =>
            /\ db'.lastReset = db.lastReset
            /\ \A w \in UserIds : db'.users[w].balance = db.users[w].balance
     /\ \A r \in Reqs :
          req'[r] # req[r] =>
            /\ db'.lastReset = db.lastReset
            /\ \A w \in UserIds \ {ChargedUser(r)} : db'.users[w] = db.users[w]
     /\ db'.lastReset # db.lastReset => BulkResetCompletes]_vars

\* after a stamped bulk reset and a charge of the first account, the second
\* account was reset on its own through users/reset-balances: the stamp is
\* there and the first account keeps its charged balance
C21_Witness ==
  /\ adm.ops = 1
  /\ adm.resp = Resp(200, "", <<Zero>>)
  /\ db.lastReset # <<>>
  /\ db.records # <<>>
  /\ db.users["u1"].balance # db.users["u1"].default_balance

\* the debits, in ten-thousandths, of the requests of a set that returned
\* success for an account
RECURSIVE SuccessDebits(_, _)
SuccessDebits(rs, u) ==
  IF rs = {} THEN 0
  ELSE LET r == CHOOSE q \in rs : TRUE
       IN (IF req[r].pc = "done" /\ req[r].data.user = u
             THEN CastDec4(req[r].actualCost) ELSE 0)
          + SuccessDebits(rs \ {r}, u)

\* C22: whatever the interleaving of the statements of overlapping charges, a
\* charge that returns success has its one usage record stored and a charge
\* that returns failure has none, and once all of them have returned every
\* balance is the balance before them minus the debits of those that
\* succeeded (for an account no debit of which hit the cap), with nothing
\* left uncommitted.
C22_RollbackIsolated ==
  /\ \A r \in Reqs :
       /\ req[r].pc = "done" => Cardinality(RecordsOf(r)) = 1
       /\ req[r].pc = "failed" => RecordsOf(r) = {}
  /\ (batch.members # {} /\ \A r \in batch.members : req[r].pc \in {"done", "failed"}) =>
       /\ tx.state = "none"
       /\ \A u \in UserIds \ batch.capped :
            db.users[u].balance =
              SubTicks(batch.base[1][u].balance, SuccessDebits(batch.members, u))

\* C23: a call of checkAndReset that has applied the reset never ends with
\* the reset in place and no stamp for the month: when it ends, the last reset
\* stored is of the current month, or the balances are back to what they were
\* before the reset.
C23_ResetAndStampAtomic ==
  [][\A t \in TickIds :
       TickStep(t, "stamp", "idle") =>
         \/ ~NotResetThisMonth(db'.lastReset, Today)
         \/ db'.users = sched.ticks[t].pre[1]]_vars

\* C24: POST users/[id]/reset-balance answers every id that has a row with
\* success and the new balance, which is the stored balance and the account's
\* default, also when that is 0; it answers 'User not found' only for an id
\* without a row, and then no row has changed.
C24_SingleResetResponse ==
  [][\A u \in UserIds :
       POST_reset_balance(u) =>
         /\ db.users[u].exists =>
              /\ adm'.resp.status = 200
              /\ adm'.resp.balance = <<db'.users[u].balance>>
              /\ db'.users[u].balance = db.users[u].default_balance
         /\ adm'.resp.error = "User not found" => ~db.users[u].exists
         /\ ~db.users[u].exists => (adm'.resp.status # 200 /\ db'.users = db.users)]_vars

====
